---------------------------- MODULE Spec2Model ----------------------------
(***************************************************************************)
(* Mint-Asset witness serialization, Mint-Asset circuit synthesis and the  *)
(* Ephemeral Key Pair of ironfish-zkp / ironfish-rust.                     *)
(*                                                                         *)
(* Byte and bit widths are the program's.  The Jubjub prime-order subgroup *)
(* is scaled down to the cyclic group of order SubgroupOrder, written      *)
(* additively: the point [k]B of a fixed base B is the number k.           *)
(* Option values are sequences: None is <<>> and Some(x) is <<x>>.         *)
(***************************************************************************)
EXTENDS Integers, Sequences, FiniteSets, TLC

\* ------------------------------------------------------------------ bounds
\* Order of the scaled-down prime-order subgroup (the modulus of jubjub::Fr).
SubgroupOrder == 5
\* Range of the scaled-down Blake2s compression state.
HashRange == 11

\* ------------------------------------------------------- program constants
\* A jubjub::Fr or one coordinate: [u8; 32].
ScalarBytes == 32
\* ProofGenerationKey::to_bytes_le: ak then nsk, 32 bytes each.
PgkBytes == 2 * ScalarBytes
\* The extended encoding of a point: [u8; 160].
PointExtBytes == 160
\* bytes[32..192].
KeyPairBytes == 192
\* assert_eq!(ivk_preimage.len(), 512).
PreimageBits == 512
\* The output bits of the Blake2s gadget.
HashBits == 256
\* The bits of a coordinate in EdwardsPoint::repr (v), before the sign of u.
FqBits == 255
\* jubjub::Fr::NUM_BITS, the bits field_into_boolean_vec_le allocates.
FrNumBits == 252
\* jubjub::Fr::CAPACITY.
CAPACITY == 251

\* ----------------------------------------------------------------- options
None == <<>>
Some(x) == <<x>>
IsSome(o) == o # <<>>
Unwrap(o) == o[1]

Min(a, b) == IF a < b THEN a ELSE b

\* ------------------------------------------------------ scalars and points
\* jubjub::Fr, scaled down.
Fr == 0 .. (SubgroupOrder - 1)
\* jubjub::SubgroupPoint: the point [k]B is k; the identity is 0.
SubgroupPoint == 0 .. (SubgroupOrder - 1)
Identity == 0
PointAdd(p, q) == (p + q) % SubgroupOrder
PointNeg(p) == (SubgroupOrder - p) % SubgroupOrder
\* base * scalar, as the Mul impl of SubgroupPoint by Fr.
PointMul(base, s) == (base * s) % SubgroupOrder

\* The three fixed generators, distinct non-identity subgroup points.
SPENDING_KEY_GENERATOR == 1 % SubgroupOrder
PROOF_GENERATION_KEY_GENERATOR == 2 % SubgroupOrder
PUBLIC_KEY_GENERATOR == 3 % SubgroupOrder

\* The base field of the coordinates (blstrs::Scalar), scaled down: an odd
\* modulus large enough to give every point its own v coordinate.
FqModulus == 2 * SubgroupOrder + 3
\* Affine coordinates: the identity is (0, 1); p and -p share v and have
\* opposite u, so the lowest bit of u tells them apart.
get_v(p) == Min(p, PointNeg(p)) + 1
get_u(p) ==
  IF p = PointNeg(p) THEN 0
  ELSE IF p < PointNeg(p) THEN 1 ELSE FqModulus - 1

\* ---------------------------------------------------------- byte encodings
RECURSIVE LittleEndian(_, _)
\* n as len little-endian bytes.
LittleEndian(n, len) ==
  IF len = 0 THEN <<>>
  ELSE <<n % 256>> \o LittleEndian(n \div 256, len - 1)

RECURSIVE FromLittleEndian(_, _)
\* The value of little-endian bytes, saturating at cap (every value >= cap
\* is reported as cap, which is how a non-canonical encoding is recognised).
FromLittleEndian(bytes, cap) ==
  IF bytes = <<>> THEN 0
  ELSE Min(bytes[1] + 256 * FromLittleEndian(Tail(bytes), cap), cap)

\* jubjub::Fr::to_bytes: 32 bytes, little-endian, canonical.
Fr_to_bytes(s) == LittleEndian(s, ScalarBytes)
\* jubjub::Fr::from_bytes: None unless the bytes are a canonical element.
Fr_from_bytes(bytes) ==
  LET v == FromLittleEndian(bytes, SubgroupOrder)
  IN  IF v < SubgroupOrder THEN Some(v) ELSE None

\* SubgroupPoint::to_bytes: v little-endian, sign of u in the top bit.
Point_to_bytes(p) ==
  LET b == LittleEndian(get_v(p), ScalarBytes)
  IN  [b EXCEPT ![ScalarBytes] = @ + 128 * (get_u(p) % 2)]
\* SubgroupPoint::from_bytes: None unless the bytes encode a subgroup point.
Point_from_bytes(bytes) ==
  LET sign == bytes[ScalarBytes] \div 128
      v == FromLittleEndian([bytes EXCEPT ![ScalarBytes] = @ % 128], FqModulus)
      hits == {p \in SubgroupPoint : get_v(p) = v /\ get_u(p) % 2 = sign}
  IN  IF hits = {} THEN None ELSE Some(CHOOSE p \in hits : TRUE)

\* ProofGenerationKey::to_bytes_le: ak (32, compressed) then nsk (32).
Pgk_to_bytes_le(k) == Point_to_bytes(k.ak) \o Fr_to_bytes(k.nsk)
\* ProofGenerationKey::read: 64 bytes off the reader; an error on a short
\* read, on bytes that are no subgroup point, or on a non-canonical nsk.
\* Returns the outcome and the bytes left on the reader.
Pgk_read(reader) ==
  IF Len(reader) < PgkBytes THEN [kind |-> "err", rest |-> <<>>]
  ELSE LET ak == Point_from_bytes(SubSeq(reader, 1, ScalarBytes))
           nsk == Fr_from_bytes(SubSeq(reader, ScalarBytes + 1, PgkBytes))
           rest == SubSeq(reader, PgkBytes + 1, Len(reader))
       IN  IF IsSome(ak) /\ IsSome(nsk)
           THEN [kind |-> "ok", rest |-> rest,
                 value |-> [ak |-> Unwrap(ak), nsk |-> Unwrap(nsk)]]
           ELSE [kind |-> "err", rest |-> rest]

\* ---------------------------------------------------- the Mint-Asset witness
ProofGenerationKeys == [ak : SubgroupPoint, nsk : Fr]
\* struct MintAsset: two optional fields.
MintAssets ==
  [proof_generation_key : {None} \cup {Some(k) : k \in ProofGenerationKeys},
   public_key_randomness : {None} \cup {Some(s) : s \in Fr}]

\* A write that emits no presence byte for an absent public_key_randomness.
MintAsset_write_no_absent_tag(w) ==
  (IF IsSome(w.proof_generation_key)
   THEN <<1>> \o Pgk_to_bytes_le(Unwrap(w.proof_generation_key))
   ELSE <<0>>)
  \o
  (IF IsSome(w.public_key_randomness)
   THEN <<1>> \o Fr_to_bytes(Unwrap(w.public_key_randomness))
   ELSE <<>>)
\* A write that emits public_key_randomness before proof_generation_key.
MintAsset_write_randomness_first(w) ==
  (IF IsSome(w.public_key_randomness)
   THEN <<1>> \o Fr_to_bytes(Unwrap(w.public_key_randomness))
   ELSE <<0>>)
  \o
  (IF IsSome(w.proof_generation_key)
   THEN <<1>> \o Pgk_to_bytes_le(Unwrap(w.proof_generation_key))
   ELSE <<0>>)

\* MintAsset::write into an empty Vec (a Vec writer never fails).
MintAsset_write(w) ==
  (IF IsSome(w.proof_generation_key)
   THEN <<1>> \o Pgk_to_bytes_le(Unwrap(w.proof_generation_key))
   ELSE <<0>>)
  \o
  (IF IsSome(w.public_key_randomness)
   THEN <<1>> \o Fr_to_bytes(Unwrap(w.public_key_randomness))
   ELSE <<0>>)

\* MintAsset::read from a byte slice.  kind is "ok" (Ok(value)), "err" (an
\* io::Error returned by ?) or "panic" (the unwrap of Fr::from_bytes).
MintAsset_read(reader) ==
  IF Len(reader) < 1 THEN [kind |-> "err"]
  ELSE
    LET tag1 == reader[1]
        r1 == Tail(reader)
        k == IF tag1 = 1 THEN Pgk_read(r1) ELSE [kind |-> "ok", rest |-> r1]
        proof_generation_key == IF tag1 = 1 /\ k.kind = "ok" THEN Some(k.value) ELSE None
    IN  IF k.kind = "err" THEN [kind |-> "err"]
        ELSE IF Len(k.rest) < 1 THEN [kind |-> "err"]
        ELSE
          LET tag2 == k.rest[1]
              r2 == Tail(k.rest)
          IN  IF tag2 # 1
              THEN [kind |-> "ok",
                    value |-> [proof_generation_key |-> proof_generation_key,
                               public_key_randomness |-> None]]
              ELSE IF Len(r2) < ScalarBytes THEN [kind |-> "err"]
              ELSE LET ar == Fr_from_bytes(SubSeq(r2, 1, ScalarBytes))
                   IN  IF ar = None THEN [kind |-> "panic"]
                       ELSE [kind |-> "ok",
                             value |-> [proof_generation_key |-> proof_generation_key,
                                        public_key_randomness |-> ar]]

\* Serialize for MintAsset: the blob handed to serialize_bytes.
serialize(w) == MintAsset_write(w)
\* BytesVisitor::visit_bytes: MintAsset::read(v).unwrap().
visit_bytes(v) ==
  LET p == MintAsset_read(v)
  IN  IF p.kind = "ok" THEN p ELSE [kind |-> "panic"]
\* deserialize_output: d.deserialize_bytes(BytesVisitor) on a blob.
deserialize_output(blob) == visit_bytes(blob)

\* -------------------------------------------------------------- bit vectors
RECURSIVE Pow2(_)
Pow2(k) == IF k = 0 THEN 1 ELSE 2 * Pow2(k - 1)
\* PowerOfTwo[i] = 2^(i-1), for the bits of a 30-bit number.
PowerOfTwo == SubSeq([i \in 1 .. 30 |-> Pow2(i - 1)], 1, 30)

RECURSIVE Pow2Mod(_, _)
\* 2^k modulo m, thirty doublings at a time.
Pow2Mod(k, m) ==
  IF k <= 30 THEN Pow2(k) % m
  ELSE ((Pow2(30) % m) * Pow2Mod(k - 30, m)) % m

\* n (below 2^30) as len little-endian bits.
BitsLE(n, len) ==
  [i \in 1 .. len |-> IF i > 30 THEN 0 ELSE (n \div PowerOfTwo[i]) % 2]

\* The weight of bit i of a scalar in the subgroup: 2^(i-1) modulo its order.
BitWeight == SubSeq([i \in 1 .. HashBits |-> Pow2Mod(i - 1, SubgroupOrder)], 1, HashBits)

RECURSIVE BitsSum(_, _, _)
\* The sum of bits[i] * 2^(i-1) over lo..hi, modulo the subgroup order.
BitsSum(bits, lo, hi) ==
  IF lo > hi THEN 0
  ELSE IF lo = hi THEN bits[lo] * BitWeight[lo]
  ELSE LET mid == (lo + hi) \div 2
       IN  (BitsSum(bits, lo, mid) + BitsSum(bits, mid + 1, hi)) % SubgroupOrder

\* The scalar that little-endian bits spell, as an element of Fr.
BitsToFr(bits) == BitsSum(bits, 1, Len(bits)) % SubgroupOrder

RECURSIVE BytesValueMod(_, _)
\* The value of little-endian bytes, reduced modulo m.
BytesValueMod(bytes, m) ==
  IF bytes = <<>> THEN 0
  ELSE (bytes[1] + 256 * BytesValueMod(Tail(bytes), m)) % m

\* Each byte as 8 little-endian bits, in byte order.
BytesToBits(bytes) ==
  [i \in 1 .. 8 * Len(bytes) |->
     (bytes[((i - 1) \div 8) + 1] \div PowerOfTwo[((i - 1) % 8) + 1]) % 2]

\* Each 8 bits, least significant first, as a byte.
BitsToBytes(bits) ==
  [k \in 1 .. Len(bits) \div 8 |->
     LET o == 8 * (k - 1)
     IN  bits[o + 1] + 2 * bits[o + 2] + 4 * bits[o + 3] + 8 * bits[o + 4]
         + 16 * bits[o + 5] + 32 * bits[o + 6] + 64 * bits[o + 7]
         + 128 * bits[o + 8]]

AllSome(v) == \A i \in 1 .. Len(v) : IsSome(v[i])
Values(v) == [i \in 1 .. Len(v) |-> Unwrap(v[i])]
Assigned(bits) == [i \in 1 .. Len(bits) |-> Some(bits[i])]
Unassigned(len) == [i \in 1 .. len |-> None]

\* ------------------------------------------------------------------ Blake2s
\* The 8-byte personalization tag.
CRH_IVK_PERSONALIZATION == <<90, 99, 97, 115, 104, 105, 118, 107>>

RECURSIVE Absorb(_, _, _)
\* The scaled-down compression: a position-weighted sum of the bits lo..hi.
Absorb(bits, lo, hi) ==
  IF lo > hi THEN 0
  ELSE IF lo = hi THEN (bits[lo] * ((lo % 7) + 1)) % HashRange
  ELSE LET mid == (lo + hi) \div 2
       IN  (Absorb(bits, lo, mid) + Absorb(bits, mid + 1, hi)) % HashRange

\* Blake2s with a personalization, scaled down: a deterministic function of
\* the personalization and the input bits with 256 output bits.  In and out
\* of circuit it is this one function (the gadget matches the reference bit
\* for bit).
Blake2s(bits, personalization) ==
  LET h == (Absorb(bits, 1, Len(bits)) + BytesValueMod(personalization, HashRange))
             % HashRange
  IN  [j \in 1 .. HashBits |-> ((((h + 1) * (j + 2)) \div 3) + h * j) % 2]

\* ----------------------------------------------------- out-of-circuit values
\* ProofGenerationKey::to_viewing_key: nk = PROOF_GENERATION_KEY_GENERATOR * nsk.
to_viewing_key(k) ==
  [ak |-> k.ak, nk |-> PointMul(PROOF_GENERATION_KEY_GENERATOR, k.nsk)]
\* ViewingKey::ivk: Blake2s of ak.to_bytes() then nk.to_bytes(), the top five
\* bits of the last byte cleared, read as a scalar.
ivk_of(vk) ==
  LET h == BitsToBytes(Blake2s(BytesToBits(Point_to_bytes(vk.ak) \o Point_to_bytes(vk.nk)),
                               CRH_IVK_PERSONALIZATION))
      masked == [h EXCEPT ![ScalarBytes] = @ % 8]
  IN  BytesValueMod(masked, SubgroupOrder)
\* ViewingKey::rk: ak + SPENDING_KEY_GENERATOR * ar.
rk_of(vk, ar) == PointAdd(vk.ak, PointMul(SPENDING_KEY_GENERATOR, ar))
\* The test's public_inputs vector for a fully specified witness.
public_inputs(w) ==
  LET incoming_view_key == to_viewing_key(Unwrap(w.proof_generation_key))
      public_address == PointMul(PUBLIC_KEY_GENERATOR, ivk_of(incoming_view_key))
      randomized_public_key == rk_of(incoming_view_key, Unwrap(w.public_key_randomness))
  IN  <<get_u(randomized_public_key), get_v(randomized_public_key),
        get_u(public_address), get_v(public_address)>>

\* ------------------------------------------------------------------ gadgets
\* A constraint system either evaluates the value closures handed to alloc
\* (proving, TestConstraintSystem) or never calls them (key generation).
CsKinds == {"prover", "keygen"}
Evaluates(kind) == kind = "prover"

\* ecc::EdwardsPoint::witness: allocates u and v; a missing value is
\* AssignmentMissing where values are evaluated.
EdwardsPoint_witness(kind, p) ==
  IF Evaluates(kind)
  THEN IF IsSome(p) THEN [kind |-> "ok", value |-> p] ELSE [kind |-> "err"]
  ELSE [kind |-> "ok", value |-> None]

\* EdwardsPoint::double.
double(kind, P) == IF IsSome(P) THEN Some(PointAdd(Unwrap(P), Unwrap(P))) ELSE None
\* EdwardsPoint::assert_not_small_order: three doublings, then u != 0.
assert_not_small_order(kind, P) ==
  LET tmp == double(kind, double(kind, double(kind, P)))
  IN  IF Evaluates(kind) /\ IsSome(tmp) /\ get_u(Unwrap(tmp)) = 0
      THEN [kind |-> "err"] ELSE [kind |-> "ok"]

\* A decomposition that allocates no bit for an absent scalar.
field_into_boolean_vec_le_nothing_when_absent(kind, value) ==
  IF Evaluates(kind) /\ value = None THEN [kind |-> "err"]
  ELSE [kind |-> "ok",
        value |-> IF IsSome(value) THEN Assigned(BitsLE(Unwrap(value), FrNumBits))
                  ELSE <<>>]

\* boolean::field_into_boolean_vec_le: one allocated bit per bit of the
\* scalar, least significant first; an absent scalar gives unassigned bits.
field_into_boolean_vec_le(kind, value) ==
  IF Evaluates(kind) /\ value = None THEN [kind |-> "err"]
  ELSE [kind |-> "ok",
        value |-> IF IsSome(value) THEN Assigned(BitsLE(Unwrap(value), FrNumBits))
                  ELSE Unassigned(FrNumBits)]

\* ecc::fixed_base_multiplication: sum of 2^i * base over the set bits.
fixed_base_multiplication(kind, base, by) ==
  IF Evaluates(kind) /\ AllSome(by)
  THEN Some(PointMul(base, BitsToFr(Values(by))))
  ELSE None

\* EdwardsPoint::add.
add(kind, P, Q) ==
  IF Evaluates(kind) /\ IsSome(P) /\ IsSome(Q)
  THEN Some(PointAdd(Unwrap(P), Unwrap(Q))) ELSE None

\* EdwardsPoint::repr: the bits of v, then the lowest bit of u.
repr(kind, P) ==
  IF Evaluates(kind) /\ IsSome(P)
  THEN Assigned(BitsLE(get_v(Unwrap(P)), FqBits) \o <<(get_u(Unwrap(P))) % 2>>)
  ELSE Unassigned(FqBits + 1)

\* blake2s::blake2s gadget.
blake2s(kind, input, personalization) ==
  IF Evaluates(kind) /\ AllSome(input)
  THEN Assigned(Blake2s(Values(input), personalization))
  ELSE Unassigned(HashBits)

\* A truncation that keeps the last len elements instead of the first.
truncate_keeping_high(v, len) == SubSeq(v, Len(v) - Min(len, Len(v)) + 1, Len(v))
\* Vec::truncate.
truncate(v, len) == SubSeq(v, 1, Min(len, Len(v)))

\* An inputize that exposes v before u.
inputize_v_first(inputs, P) ==
  inputs \o <<IF IsSome(P) THEN Some(get_v(Unwrap(P))) ELSE None,
              IF IsSome(P) THEN Some(get_u(Unwrap(P))) ELSE None>>
\* EdwardsPoint::inputize: u then v appended to the public inputs.
inputize(inputs, P) ==
  inputs \o <<IF IsSome(P) THEN Some(get_u(Unwrap(P))) ELSE None,
              IF IsSome(P) THEN Some(get_v(Unwrap(P))) ELSE None>>

\* A verify that compares the inputs of rk only.
verify_rk_only(inputs, expected) ==
  IF Len(expected) + 1 # Len(inputs) THEN "panic"
  ELSE IF \A i \in 1 .. Min(2, Len(expected)) : inputs[i + 1] = Some(expected[i])
       THEN "true" ELSE "false"

\* TestConstraintSystem::verify: the inputs after the constant ONE against
\* the expected vector.
verify(inputs, expected) ==
  IF Len(expected) + 1 # Len(inputs) THEN "panic"
  ELSE IF \A i \in 1 .. Len(expected) : inputs[i + 1] = Some(expected[i])
       THEN "true" ELSE "false"

\* ------------------------------------------------------ ephemeral key pair
\* Fq::to_bytes_le of one coordinate.
Fq_to_bytes(x) == LittleEndian(x, ScalarBytes)
\* SubgroupPoint::to_bytes_le: the extended coordinates u, v, z, t1, t2 of
\* the point (z = 1, t1 = u, t2 = v), 32 bytes each.
Point_to_bytes_le(p) ==
  Fq_to_bytes(get_u(p)) \o Fq_to_bytes(get_v(p)) \o Fq_to_bytes(1)
  \o Fq_to_bytes(get_u(p)) \o Fq_to_bytes(get_v(p))
\* What an unchecked decode yields for coordinates of no subgroup point: a
\* value outside the subgroup (one stands for all of them).
OffSubgroup == SubgroupOrder
\* SubgroupPoint::from_bytes_le, an unchecked decode of the five coordinates:
\* the point with these coordinates.  Where the 160 bytes are the coordinates
\* of no subgroup point the library either hands back a value outside the
\* subgroup or aborts (None); both outcomes are kept.
Point_from_bytes_le(bytes) ==
  LET hits == {p \in SubgroupPoint \cup {OffSubgroup} :
                 Len(bytes) = PointExtBytes /\ Point_to_bytes_le(p) = bytes}
  IN  IF hits = {} THEN {Some(OffSubgroup), None}
      ELSE {Some(CHOOSE p \in hits : TRUE)}

\* A constructor that multiplies the wrong generator.
EphemeralKeyPair_new_spending_generator(secret) ==
  [secret |-> secret, public |-> PointMul(SPENDING_KEY_GENERATOR, secret)]
\* EphemeralKeyPair::new with the scalar drawn from thread_rng.
EphemeralKeyPair_new(secret) ==
  [secret |-> secret, public |-> PointMul(PUBLIC_KEY_GENERATOR, secret)]
\* #[derive(Default)]: the zero scalar and the identity point.
EphemeralKeyPair_default == [secret |-> 0, public |-> Identity]
\* An encoding that puts the public point before the secret.
to_bytes_le_public_first(k) == Point_to_bytes_le(k.public) \o Fr_to_bytes(k.secret)
\* EphemeralKeyPair::to_bytes_le.
to_bytes_le(k) == Fr_to_bytes(k.secret) \o Point_to_bytes_le(k.public)
\* EphemeralKeyPair::from_bytes_le, the set of its possible outcomes: a panic
\* on a buffer shorter than 192 bytes (the slice index), on a non-canonical
\* secret (the unwrap) and where the point decode aborts; otherwise the pair
\* of the decoded secret and the decoded point, unrelated as they may be.
from_bytes_le(bytes) ==
  IF Len(bytes) < KeyPairBytes THEN {[kind |-> "panic"]}
  ELSE LET secret == Fr_from_bytes(SubSeq(bytes, 1, ScalarBytes))
       IN  IF secret = None THEN {[kind |-> "panic"]}
           ELSE {IF public = None THEN [kind |-> "panic"]
                 ELSE [kind |-> "ok",
                       value |-> [secret |-> Unwrap(secret), public |-> Unwrap(public)]] :
                 public \in Point_from_bytes_le(SubSeq(bytes, ScalarBytes + 1, KeyPairBytes))}

\* ==================================================================== state
VARIABLES
  witness,     \* the MintAsset being written / serialized
  wire,        \* the bytes last written (a Vec writer or a serde blob)
  wireKind,    \* "none", "writer" (MintAsset::write) or "blob" (Serialize)
  wireIntact,  \* the bytes are as written, not damaged on the way
  outcome,     \* the last read / deserialize: [op, res]
  circuit,     \* the MintAsset consumed by synthesize (self)
  cs,          \* the constraint system: [kind, inputs, satisfied, log]
  pc,          \* position of synthesize in SynthesisOrder
  fr,          \* the locals of synthesize
  result,      \* "running", "ok", "err" (SynthesisError) or "panic"
  verified,    \* the last cs.verify: [i, expected, res], i the input replaced
  kp,          \* the EphemeralKeyPair in hand: [secret, public]
  kpFrom,      \* how kp was obtained: "new", "default", "from_bytes_le"
               \* (of the bytes to_bytes_le gave for such a pair) or "foreign"
  kpWire,      \* a byte buffer: [bytes, intact]
  kpOut        \* what the last call returned: [op, kind, value, from]

witnessVars == <<witness, wire, wireKind, wireIntact, outcome>>
circuitVars == <<circuit, cs, pc, fr, result, verified>>
keyPairVars == <<kp, kpFrom, kpWire, kpOut>>
vars == <<witness, wire, wireKind, wireIntact, outcome, circuit, cs, pc, fr, result,
          verified, kp, kpFrom, kpWire, kpOut>>

NoMintAsset == [proof_generation_key |-> None, public_key_randomness |-> None]
NoOutcome == [op |-> "none", res |-> [kind |-> "none"]]
\* The locals of synthesize before any of them is bound.
NoLocals ==
  [ak |-> None, ar_bits |-> <<>>, ar |-> None, rk |-> None, nsk |-> <<>>,
   nk |-> None, ivk_preimage |-> <<>>, ivk |-> <<>>,
   owner_public_address |-> None]
\* A fresh constraint system: the constant ONE is public input 0.
NewCs(kind) ==
  [kind |-> kind, inputs |-> <<Some(1)>>, satisfied |-> TRUE, log |-> <<>>]
NoVerify == [i |-> 0, expected |-> <<>>, res |-> "none"]
NoKeyPair == [secret |-> 0, public |-> Identity]
NoWire == [bytes |-> <<>>, intact |-> FALSE]
NoKpOut == [op |-> "none", kind |-> "none"]

WitnessIdle ==
  /\ witness = NoMintAsset /\ wire = <<>> /\ wireKind = "none"
  /\ wireIntact = TRUE
  /\ outcome = NoOutcome
CircuitIdle ==
  /\ circuit = NoMintAsset /\ cs = NewCs("keygen") /\ pc = 0
  /\ fr = NoLocals /\ result = "idle" /\ verified = NoVerify
KeyPairIdle ==
  /\ kp = NoKeyPair /\ kpFrom = "none" /\ kpWire = NoWire /\ kpOut = NoKpOut

\* ===================================================== witness serialization
\* circuit.write(&mut writer) on an empty Vec.
Write ==
  /\ wireKind = "none"
  /\ wire' = MintAsset_write(witness)
  /\ wireKind' = "writer" /\ wireIntact' = TRUE
  /\ outcome' = NoOutcome
  /\ UNCHANGED <<witness, circuitVars, keyPairVars>>

\* Serialize::serialize: the blob given to serialize_bytes.
Serialize ==
  /\ wireKind = "none"
  /\ wire' = serialize(witness)
  /\ wireKind' = "blob" /\ wireIntact' = TRUE
  /\ outcome' = NoOutcome
  /\ UNCHANGED <<witness, circuitVars, keyPairVars>>

\* The bytes reach the reader damaged (once): cut short at n bytes.
CutShort(n) ==
  /\ wireKind # "none" /\ outcome.op = "none"
  /\ wireIntact /\ wireIntact' = FALSE
  /\ n < Len(wire)
  /\ wire' = SubSeq(wire, 1, n)
  /\ UNCHANGED <<witness, wireKind, outcome, circuitVars, keyPairVars>>

\* The bytes reach the reader damaged (once): byte i replaced by b.
Overwrite(i, b) ==
  /\ wireKind # "none" /\ outcome.op = "none"
  /\ wireIntact /\ wireIntact' = FALSE
  /\ i <= Len(wire) /\ wire[i] # b
  /\ wire' = [wire EXCEPT ![i] = b]
  /\ UNCHANGED <<witness, wireKind, outcome, circuitVars, keyPairVars>>

\* MintAsset::read(&writer[..]).
Read ==
  /\ wireKind = "writer"
  /\ outcome' = [op |-> "read", res |-> MintAsset_read(wire)]
  /\ UNCHANGED <<witness, wire, wireKind, wireIntact, circuitVars, keyPairVars>>

\* Deserialize::deserialize on the blob.
Deserialize ==
  /\ wireKind = "blob"
  /\ outcome' = [op |-> "deserialize", res |-> deserialize_output(wire)]
  /\ UNCHANGED <<witness, wire, wireKind, wireIntact, circuitVars, keyPairVars>>

\* The longest output of MintAsset::write.
MaxWire == 2 + PgkBytes + ScalarBytes

InitWitness ==
  /\ witness \in MintAssets
  /\ wire = <<>> /\ wireKind = "none" /\ wireIntact = TRUE
  /\ outcome = NoOutcome
  /\ CircuitIdle /\ KeyPairIdle

NextWitness ==
  \/ Write
  \/ Serialize
  \/ \E n \in 0 .. MaxWire : CutShort(n)
  \/ \E i \in 1 .. MaxWire, b \in {2, 255} : Overwrite(i, b)
  \/ Read
  \/ Deserialize

SpecWitness == InitWitness /\ [][NextWitness]_vars

\* ======================================================= circuit synthesis
\* A synthesize that decomposes nsk before it exposes rk.
SynthesisOrder_nsk_before_rk ==
  <<"ak", "ak not small order", "ar",
    "computation of randomization for the signing key",
    "computation of rk", "nsk", "rk", "computation of nk",
    "representation of ak", "representation of nk", "assert_eq",
    "computation of ivk", "truncate", "compute pk_d", "owner public address">>

\* The steps of MintAsset::synthesize in program order, named by their
\* namespace labels (the length assertion and the truncation, which open no
\* namespace, by what they do).
SynthesisOrder ==
  <<"ak", "ak not small order", "ar",
    "computation of randomization for the signing key",
    "computation of rk", "rk", "nsk", "computation of nk",
    "representation of ak", "representation of nk", "assert_eq",
    "computation of ivk", "truncate", "compute pk_d", "owner public address">>

At(step) ==
  result = "running" /\ pc \in 1 .. Len(SynthesisOrder) /\ SynthesisOrder[pc] = step

\* The step returned normally: what it emitted is logged with the number of
\* variables it yields, and control passes to the next statement.
Emit(step, n, inputs, sat) ==
  /\ cs' = [cs EXCEPT !.log = Append(@, [step |-> step, n |-> n]),
                      !.inputs = inputs,
                      !.satisfied = @ /\ sat]
  /\ pc' = pc + 1
  /\ result' = IF pc = Len(SynthesisOrder) THEN "ok" ELSE "running"

\* The step returned Err and ? returned it from synthesize.
Fail ==
  /\ result' = "err"
  /\ UNCHANGED <<cs, pc, fr>>

\* let ak = ecc::EdwardsPoint::witness(.., self.proof_generation_key.map(|k| k.ak))?
WitnessAk ==
  /\ At("ak")
  /\ \E r \in {EdwardsPoint_witness(cs.kind,
                 IF IsSome(circuit.proof_generation_key)
                 THEN Some(Unwrap(circuit.proof_generation_key).ak) ELSE None)} :
         IF r.kind = "err" THEN Fail
         ELSE /\ fr' = [fr EXCEPT !.ak = r.value]
              /\ Emit("ak", 2, cs.inputs,
                      IsSome(r.value) => Unwrap(r.value) \in SubgroupPoint)
  /\ UNCHANGED <<circuit, verified, witnessVars, keyPairVars>>

\* ak.assert_not_small_order(..)?
AssertNotSmallOrder ==
  /\ At("ak not small order")
  /\ IF assert_not_small_order(cs.kind, fr.ak).kind = "err" THEN Fail
     ELSE /\ Emit("ak not small order", 1, cs.inputs, TRUE)
          /\ UNCHANGED fr
  /\ UNCHANGED <<circuit, verified, witnessVars, keyPairVars>>

\* let ar = boolean::field_into_boolean_vec_le(.., self.public_key_randomness)?
DecomposeAr ==
  /\ At("ar")
  /\ \E r \in {field_into_boolean_vec_le(cs.kind, circuit.public_key_randomness)} :
         IF r.kind = "err" THEN Fail
         ELSE /\ fr' = [fr EXCEPT !.ar_bits = r.value]
              /\ Emit("ar", Len(r.value), cs.inputs,
                      \A i \in 1 .. Len(r.value) :
                         IsSome(r.value[i]) => Unwrap(r.value[i]) \in {0, 1})
  /\ UNCHANGED <<circuit, verified, witnessVars, keyPairVars>>

\* let ar = ecc::fixed_base_multiplication(.., &SPENDING_KEY_GENERATOR, &ar)?
MultiplyAr ==
  /\ At("computation of randomization for the signing key")
  /\ fr' = [fr EXCEPT !.ar =
              fixed_base_multiplication(cs.kind, SPENDING_KEY_GENERATOR, fr.ar_bits)]
  /\ Emit("computation of randomization for the signing key", 2, cs.inputs, TRUE)
  /\ UNCHANGED <<circuit, verified, witnessVars, keyPairVars>>

\* let rk = ak.add(.., &ar)?
AddRk ==
  /\ At("computation of rk")
  /\ fr' = [fr EXCEPT !.rk = add(cs.kind, fr.ak, fr.ar)]
  /\ Emit("computation of rk", 2, cs.inputs, TRUE)
  /\ UNCHANGED <<circuit, verified, witnessVars, keyPairVars>>

\* rk.inputize(..)?
InputizeRk ==
  /\ At("rk")
  /\ Emit("rk", 2, inputize(cs.inputs, fr.rk), TRUE)
  /\ UNCHANGED <<fr, circuit, verified, witnessVars, keyPairVars>>

\* let nsk = boolean::field_into_boolean_vec_le(.., self.proof_generation_key.map(|k| k.nsk))?
DecomposeNsk ==
  /\ At("nsk")
  /\ \E r \in {field_into_boolean_vec_le(cs.kind,
                 IF IsSome(circuit.proof_generation_key)
                 THEN Some(Unwrap(circuit.proof_generation_key).nsk) ELSE None)} :
         IF r.kind = "err" THEN Fail
         ELSE /\ fr' = [fr EXCEPT !.nsk = r.value]
              /\ Emit("nsk", Len(r.value), cs.inputs,
                      \A i \in 1 .. Len(r.value) :
                         IsSome(r.value[i]) => Unwrap(r.value[i]) \in {0, 1})
  /\ UNCHANGED <<circuit, verified, witnessVars, keyPairVars>>

\* nk = ecc::fixed_base_multiplication(.., &PROOF_GENERATION_KEY_GENERATOR, &nsk)?
MultiplyNsk ==
  /\ At("computation of nk")
  /\ fr' = [fr EXCEPT !.nk =
              fixed_base_multiplication(cs.kind, PROOF_GENERATION_KEY_GENERATOR, fr.nsk)]
  /\ Emit("computation of nk", 2, cs.inputs, TRUE)
  /\ UNCHANGED <<circuit, verified, witnessVars, keyPairVars>>

\* ivk_preimage.extend(ak.repr(..)?)
ReprAk ==
  /\ At("representation of ak")
  /\ \E bits \in {repr(cs.kind, fr.ak)} :
         /\ fr' = [fr EXCEPT !.ivk_preimage = @ \o bits]
         /\ Emit("representation of ak", Len(bits), cs.inputs, TRUE)
  /\ UNCHANGED <<circuit, verified, witnessVars, keyPairVars>>

\* let repr_nk = nk.repr(..)?; ivk_preimage.extend(repr_nk.iter().cloned())
ReprNk ==
  /\ At("representation of nk")
  /\ \E repr_nk \in {repr(cs.kind, fr.nk)} :
         /\ fr' = [fr EXCEPT !.ivk_preimage = @ \o repr_nk]
         /\ Emit("representation of nk", Len(repr_nk), cs.inputs, TRUE)
  /\ UNCHANGED <<circuit, verified, witnessVars, keyPairVars>>

\* assert_eq!(ivk_preimage.len(), 512): emits nothing; a panic if it fails.
AssertPreimageLen ==
  /\ At("assert_eq")
  /\ IF Len(fr.ivk_preimage) = PreimageBits
     THEN /\ pc' = pc + 1
          /\ UNCHANGED result
     ELSE /\ result' = "panic"
          /\ UNCHANGED pc
  /\ UNCHANGED <<cs, fr, circuit, verified, witnessVars, keyPairVars>>

\* let mut ivk = blake2s::blake2s(.., &ivk_preimage, CRH_IVK_PERSONALIZATION)?
HashIvk ==
  /\ At("computation of ivk")
  /\ \E out \in {blake2s(cs.kind, fr.ivk_preimage, CRH_IVK_PERSONALIZATION)} :
         /\ fr' = [fr EXCEPT !.ivk = out]
         /\ Emit("computation of ivk", Len(out), cs.inputs, TRUE)
  /\ UNCHANGED <<circuit, verified, witnessVars, keyPairVars>>

\* ivk.truncate(jubjub::Fr::CAPACITY as usize)
TruncateIvk ==
  /\ At("truncate")
  /\ \E kept \in {truncate(fr.ivk, CAPACITY)} :
         /\ fr' = [fr EXCEPT !.ivk = kept]
         /\ Emit("truncate", Len(kept), cs.inputs, TRUE)
  /\ UNCHANGED <<circuit, verified, witnessVars, keyPairVars>>

\* let owner_public_address = ecc::fixed_base_multiplication(.., &PUBLIC_KEY_GENERATOR, &ivk)?
MultiplyIvk ==
  /\ At("compute pk_d")
  /\ fr' = [fr EXCEPT !.owner_public_address =
              fixed_base_multiplication(cs.kind, PUBLIC_KEY_GENERATOR, fr.ivk)]
  /\ Emit("compute pk_d", 2, cs.inputs, TRUE)
  /\ UNCHANGED <<circuit, verified, witnessVars, keyPairVars>>

\* owner_public_address.inputize(..)?; Ok(())
InputizePkd ==
  /\ At("owner public address")
  /\ Emit("owner public address", 2, inputize(cs.inputs, fr.owner_public_address), TRUE)
  /\ UNCHANGED <<fr, circuit, verified, witnessVars, keyPairVars>>

\* The coordinates a caller may hand to verify.
Fq == 0 .. (FqModulus - 1)

\* cs.verify(&inputs) after a synthesis that returned Ok, on the public
\* inputs computed out of circuit, as they are or with one input replaced by
\* another field element.  verify borrows cs immutably, so one call per run
\* stands for every call.
Verify ==
  /\ result = "ok" /\ cs.kind = "prover" /\ verified.res = "none"
  /\ \E good \in {public_inputs(circuit)} :
         \E i \in 0 .. Len(good), x \in Fq :
            LET expected == IF i = 0 THEN good ELSE [good EXCEPT ![i] = x]
            IN  verified' = [i |-> i, expected |-> expected,
                             res |-> verify(cs.inputs, expected)]
  /\ UNCHANGED <<circuit, cs, pc, fr, result, witnessVars, keyPairVars>>

InitCircuit ==
  /\ circuit \in MintAssets
  /\ cs \in {NewCs(kind) : kind \in CsKinds}
  /\ pc = 1 /\ fr = NoLocals /\ result = "running" /\ verified = NoVerify
  /\ WitnessIdle /\ KeyPairIdle

NextCircuit ==
  \/ WitnessAk
  \/ AssertNotSmallOrder
  \/ DecomposeAr
  \/ MultiplyAr
  \/ AddRk
  \/ InputizeRk
  \/ DecomposeNsk
  \/ MultiplyNsk
  \/ ReprAk
  \/ ReprNk
  \/ AssertPreimageLen
  \/ HashIvk
  \/ TruncateIvk
  \/ MultiplyIvk
  \/ InputizePkd
  \/ Verify

SpecCircuit == InitCircuit /\ [][NextCircuit]_vars

\* ====================================================== ephemeral key pair
\* let key_pair = EphemeralKeyPair::new()
KpNew(secret) ==
  /\ kpFrom = "none"
  /\ kp' = EphemeralKeyPair_new(secret)
  /\ kpFrom' = "new"
  /\ UNCHANGED <<kpWire, kpOut, witnessVars, circuitVars>>

\* let key_pair = EphemeralKeyPair::default()
KpDefault ==
  /\ kpFrom = "none"
  /\ kp' = EphemeralKeyPair_default
  /\ kpFrom' = "default"
  /\ UNCHANGED <<kpWire, kpOut, witnessVars, circuitVars>>

\* key_pair.secret()
KpSecret ==
  /\ kpFrom # "none" /\ kpWire = NoWire
  /\ kpOut' = [op |-> "secret", kind |-> "ok", value |-> kp.secret]
  /\ UNCHANGED <<kp, kpFrom, kpWire, witnessVars, circuitVars>>

\* key_pair.public()
KpPublic ==
  /\ kpFrom # "none" /\ kpWire = NoWire
  /\ kpOut' = [op |-> "public", kind |-> "ok", value |-> kp.public]
  /\ UNCHANGED <<kp, kpFrom, kpWire, witnessVars, circuitVars>>

\* let bytes = key_pair.to_bytes_le()
KpToBytes ==
  /\ kpFrom # "none" /\ kpWire = NoWire
  /\ kpWire' = [bytes |-> to_bytes_le(kp), intact |-> TRUE]
  /\ kpOut' = NoKpOut
  /\ UNCHANGED <<kp, kpFrom, witnessVars, circuitVars>>

\* The buffer is not what to_bytes_le gave: cut short at n bytes.
KpCutShort(n) ==
  /\ kpWire.intact /\ n < Len(kpWire.bytes)
  /\ kpWire' = [bytes |-> SubSeq(kpWire.bytes, 1, n), intact |-> FALSE]
  /\ kpOut' = NoKpOut
  /\ UNCHANGED <<kp, kpFrom, witnessVars, circuitVars>>

\* The buffer is not what to_bytes_le gave: byte i replaced by b.
KpOverwrite(i, b) ==
  /\ kpWire.intact /\ i <= Len(kpWire.bytes) /\ kpWire.bytes[i] # b
  /\ kpWire' = [bytes |-> [kpWire.bytes EXCEPT ![i] = b], intact |-> FALSE]
  /\ kpOut' = NoKpOut
  /\ UNCHANGED <<kp, kpFrom, witnessVars, circuitVars>>

\* The buffer is not what to_bytes_le gave: a byte follows it.
KpExtend(b) ==
  /\ kpWire.intact
  /\ kpWire' = [bytes |-> Append(kpWire.bytes, b), intact |-> FALSE]
  /\ kpOut' = NoKpOut
  /\ UNCHANGED <<kp, kpFrom, witnessVars, circuitVars>>

\* EphemeralKeyPair::from_bytes_le(bytes)
KpFromBytes ==
  /\ kpWire # NoWire /\ kpOut = NoKpOut
  /\ \E r \in from_bytes_le(kpWire.bytes) :
        kpOut' = [op |-> "from_bytes_le", kind |-> r.kind,
                  value |-> IF r.kind = "ok" THEN r.value ELSE NoKeyPair,
                  from |-> IF kpWire.intact /\ kpFrom # "foreign"
                           THEN "from_bytes_le" ELSE "foreign"]
  /\ UNCHANGED <<kp, kpFrom, kpWire, witnessVars, circuitVars>>

\* The pair from_bytes_le returned is the pair in hand from now on.
KpBind ==
  /\ kpOut.op = "from_bytes_le" /\ kpOut.kind = "ok"
  /\ kp' = kpOut.value
  /\ kpFrom' = kpOut.from
  /\ kpWire' = NoWire
  /\ kpOut' = NoKpOut
  /\ UNCHANGED <<witnessVars, circuitVars>>

InitKeyPair ==
  /\ kp = NoKeyPair /\ kpFrom = "none" /\ kpWire = NoWire /\ kpOut = NoKpOut
  /\ WitnessIdle /\ CircuitIdle

NextKeyPair ==
  \/ \E secret \in Fr : KpNew(secret)
  \/ KpDefault
  \/ KpSecret
  \/ KpPublic
  \/ KpToBytes
  \/ \E n \in 0 .. KeyPairBytes : KpCutShort(n)
  \/ \E i \in 1 .. KeyPairBytes, b \in {1, 255} : KpOverwrite(i, b)
  \/ KpExtend(0)
  \/ KpFromBytes
  \/ KpBind

SpecKeyPair == InitKeyPair /\ [][NextKeyPair]_vars

\* =================================================================== claims
\* ------------------------------------------------------------------------
\* C1: MintAsset::read applied to the bytes MintAsset::write produced for a
\* witness succeeds and returns a witness with the same two fields (same
\* presence, same ak, nsk and ar), in all four presence combinations.
C1_ReadOfWriteIsIdentity ==
  (outcome.op = "read" /\ wireIntact) =>
    /\ outcome.res.kind = "ok"
    /\ outcome.res.value.proof_generation_key = witness.proof_generation_key
    /\ outcome.res.value.public_key_randomness = witness.public_key_randomness

\* A fully specified witness with non-zero scalars was written and read back.
C1_Witness ==
  /\ outcome.op = "read" /\ wireIntact /\ outcome.res.kind = "ok"
  /\ IsSome(witness.proof_generation_key)
  /\ IsSome(witness.public_key_randomness)
  /\ Unwrap(witness.proof_generation_key).nsk # 0
  /\ Unwrap(witness.public_key_randomness) # 0

\* ------------------------------------------------------------------------
\* C4: every decode failure is surfaced as an error value, never a panic:
\* neither MintAsset::read nor the serde visitor panics, whatever the bytes.
C4_DecodeFailureIsNeverAPanic == outcome.res.kind # "panic"

\* ------------------------------------------------------------------------
\* The layout of what MintAsset::write emitted: a presence byte (0 or 1) for
\* proof_generation_key, the 64 key bytes if present, a presence byte for
\* public_key_randomness, the 32 scalar bytes if present, and nothing else.
WriteLayout ==
  LET k == witness.proof_generation_key
      ar == witness.public_key_randomness
      o == IF IsSome(k) THEN PgkBytes + 2 ELSE 2
  IN  /\ wire[1] = (IF IsSome(k) THEN 1 ELSE 0)
      /\ IsSome(k) => SubSeq(wire, 2, PgkBytes + 1) = Pgk_to_bytes_le(Unwrap(k))
      /\ Len(wire) >= o
      /\ wire[o] = (IF IsSome(ar) THEN 1 ELSE 0)
      /\ IsSome(ar) => SubSeq(wire, o + 1, Len(wire)) = Fr_to_bytes(Unwrap(ar))
      /\ ~IsSome(ar) => Len(wire) = o

\* C5 as stated: the layout above, with a total length of 1, 65, 33 or 97
\* bytes for (absent, absent), (present, absent), (absent, present),
\* (present, present).
C5_LengthAsClaimed ==
  (wireKind = "writer" /\ wireIntact) =>
    /\ WriteLayout
    /\ Len(wire) =
         (IF IsSome(witness.proof_generation_key)
          THEN (IF IsSome(witness.public_key_randomness) THEN 97 ELSE 65)
          ELSE (IF IsSome(witness.public_key_randomness) THEN 33 ELSE 1))

\* C5 amended: the same layout; both presence bytes are always written, so
\* the total length is 2, 66, 34 or 98 bytes.
C5_LengthWithBothPresenceBytes ==
  (wireKind = "writer" /\ wireIntact) =>
    /\ WriteLayout
    /\ Len(wire) =
         (IF IsSome(witness.proof_generation_key)
          THEN (IF IsSome(witness.public_key_randomness) THEN 98 ELSE 66)
          ELSE (IF IsSome(witness.public_key_randomness) THEN 34 ELSE 2))

\* Both fields absent were written: two presence bytes.
C5_Witness ==
  /\ wireKind = "writer" /\ wireIntact
  /\ witness = NoMintAsset
  /\ wire = <<0, 0>>

\* ------------------------------------------------------------------------
\* The position of a statement of synthesize, and whether control is past it.
StepIndex(step) ==
  CHOOSE i \in 1 .. Len(SynthesisOrder) : SynthesisOrder[i] = step
Past(step) == pc > StepIndex(step)

\* A point of small order: eight times the point is the identity.
SmallOrder(p) == PointMul(p, 8) = Identity

\* A proving run on a fully specified witness whose ak is not of small order.
ValidWitnessRun ==
  /\ cs.kind = "prover"
  /\ IsSome(circuit.proof_generation_key)
  /\ IsSome(circuit.public_key_randomness)
  /\ ~SmallOrder(Unwrap(circuit.proof_generation_key).ak)

\* rk and pk_d computed out of circuit from the witness in circuit.
OutOfCircuitRk ==
  PointAdd(Unwrap(circuit.proof_generation_key).ak,
           PointMul(SPENDING_KEY_GENERATOR, Unwrap(circuit.public_key_randomness)))
OutOfCircuitPkd ==
  PointMul(PUBLIC_KEY_GENERATOR,
           ivk_of(to_viewing_key(Unwrap(circuit.proof_generation_key))))

\* C2: for a fully specified witness with ak not of small order, synthesize
\* does not fail, the constraint system is satisfied, the public inputs after
\* the constant ONE are exactly rk.u, rk.v, pk_d.u, pk_d.v of the rk and pk_d
\* computed out of circuit, and verify on that list accepts.
C2_ValidWitnessSatisfiesAndVerifies ==
  ValidWitnessRun =>
    /\ result \in {"running", "ok"}
    /\ cs.satisfied
    /\ (result = "ok" /\ verified.res = "none") =>
         \A rk \in {OutOfCircuitRk}, pk_d \in {OutOfCircuitPkd} :
            cs.inputs = <<Some(1), Some(get_u(rk)), Some(get_v(rk)),
                          Some(get_u(pk_d)), Some(get_v(pk_d))>>
    /\ (verified.res # "none" /\ verified.i = 0) =>
         /\ verified.res = "true"
         /\ Len(cs.inputs) = 5
         /\ \A j \in 1 .. 4 : cs.inputs[j + 1] = Some(verified.expected[j])

\* Synthesis of a valid witness with non-zero scalars returned Ok and verify
\* accepted the public inputs computed out of circuit.
C2_Witness ==
  /\ ValidWitnessRun
  /\ Unwrap(circuit.proof_generation_key).nsk # 0
  /\ Unwrap(circuit.public_key_randomness) # 0
  /\ result = "ok" /\ verified.res = "true" /\ verified.i = 0

\* ------------------------------------------------------------------------
\* C3: after a successful synthesis, verify on a list that differs from the
\* exposed public inputs in exactly one of the four positions rejects.
C3_OneReplacedInputRejects ==
  ( /\ verified.res # "none"
    /\ verified.i \in 1 .. 4
    /\ Len(verified.expected) = 4
    /\ Some(verified.expected[verified.i]) # cs.inputs[verified.i + 1]
    /\ \A j \in (1 .. 4) \ {verified.i} :
          Some(verified.expected[j]) = cs.inputs[j + 1] )
  => verified.res = "false"

\* pk_d.u (input[2] of the test) was replaced by another field element and
\* verify returned false.
C3_Witness ==
  /\ verified.res = "false" /\ verified.i = 3
  /\ Some(verified.expected[3]) # cs.inputs[4]
  /\ \A j \in {1, 2, 4} : Some(verified.expected[j]) = cs.inputs[j + 1]

\* ------------------------------------------------------------------------
\* The fourteen gadget steps in the order the contract gives them.
ContractOrder ==
  <<"ak", "ak not small order", "ar",
    "computation of randomization for the signing key",
    "computation of rk", "rk", "nsk", "computation of nk",
    "representation of ak", "representation of nk",
    "computation of ivk", "truncate", "compute pk_d", "owner public address">>

EmittedSteps == [k \in 1 .. Len(cs.log) |-> cs.log[k].step]

\* C8: what a run has emitted is always a prefix of the fourteen steps in the
\* contract's order (so each step follows the previous one, and a run that
\* returned Ok emitted all of them); rk is among the public inputs before nsk
\* is decomposed; and once synthesize has returned, with Ok, Err or a panic,
\* nothing more is emitted.
C8_StepsInContractOrder ==
  /\ [](/\ Len(cs.log) <= Len(ContractOrder)
        /\ EmittedSteps = SubSeq(ContractOrder, 1, Len(cs.log))
        /\ (result = "ok") => (Len(cs.log) = Len(ContractOrder))
        /\ (\E k \in 1 .. Len(cs.log) : cs.log[k].step = "nsk")
              => (Len(cs.inputs) >= 3)
        /\ (Len(cs.inputs) > 1) => (\E k \in 1 .. Len(cs.log) : cs.log[k].step = "rk"))
  /\ [][(result \in {"ok", "err", "panic"}) => (cs' = cs /\ result' = result)]_vars

\* A run emitted all fourteen steps and returned Ok.
C8_Witness ==
  /\ result = "ok"
  /\ EmittedSteps = ContractOrder
  /\ Len(cs.inputs) = 5

\* ------------------------------------------------------------------------
\* The shape of a complete synthesis: each step with the number of variables
\* it yields.
CompleteShape ==
  <<[step |-> "ak", n |-> 2],
    [step |-> "ak not small order", n |-> 1],
    [step |-> "ar", n |-> FrNumBits],
    [step |-> "computation of randomization for the signing key", n |-> 2],
    [step |-> "computation of rk", n |-> 2],
    [step |-> "rk", n |-> 2],
    [step |-> "nsk", n |-> FrNumBits],
    [step |-> "computation of nk", n |-> 2],
    [step |-> "representation of ak", n |-> FqBits + 1],
    [step |-> "representation of nk", n |-> FqBits + 1],
    [step |-> "computation of ivk", n |-> HashBits],
    [step |-> "truncate", n |-> CAPACITY],
    [step |-> "compute pk_d", n |-> 2],
    [step |-> "owner public address", n |-> 2]>>

\* C9 as stated: every run of synthesize, whatever the witness values and
\* whichever fields are present, has emitted the same steps with the same
\* counts by the time it returns.
C9_SameEmissionForEveryWitness ==
  (result \in {"ok", "err", "panic"}) => (cs.log = CompleteShape)

\* C9 amended: every run that returns Ok has emitted the same steps in the
\* same order with the same counts, whatever the witness values and whether
\* or not the fields are present; a run that returns Err (a missing value or
\* a small-order ak where the constraint system evaluates values) has emitted
\* a proper prefix of that sequence.
C9_SameEmissionForEveryCompletedRun ==
  /\ (result = "ok") => (cs.log = CompleteShape)
  /\ (result = "err") =>
        /\ Len(cs.log) < Len(CompleteShape)
        /\ cs.log = SubSeq(CompleteShape, 1, Len(cs.log))
  /\ result # "panic"

\* A shape-only run with both fields absent returned Ok with the complete
\* shape.
C9_Witness ==
  /\ result = "ok" /\ cs.kind = "keygen"
  /\ circuit = NoMintAsset
  /\ cs.log = CompleteShape

\* ------------------------------------------------------------------------
\* The Blake2s output of the run, recomputed from the preimage.
IvkHash == blake2s(cs.kind, fr.ivk_preimage, CRH_IVK_PERSONALIZATION)

\* C10: the preimage is repr(ak) then repr(nk), 512 bits, and the length
\* assertion never fails; what is passed to the pk_d multiplication is the
\* first CAPACITY bits of the 256-bit Blake2s output, so ivk has at most
\* CAPACITY bits.
C10_PreimageAndTruncation ==
  /\ result # "panic"
  /\ (Past("representation of nk") /\ verified.res = "none") =>
        /\ Len(fr.ivk_preimage) = 512
        /\ fr.ivk_preimage = repr(cs.kind, fr.ak) \o repr(cs.kind, fr.nk)
  /\ (Past("truncate") /\ verified.res = "none") =>
        \A hash \in {IvkHash} :
           /\ Len(hash) = 256
           /\ Len(fr.ivk) = CAPACITY
           /\ \A j \in 1 .. CAPACITY : fr.ivk[j] = hash[j]
           /\ Past("compute pk_d") =>
                fr.owner_public_address =
                  fixed_base_multiplication(cs.kind, PUBLIC_KEY_GENERATOR,
                                            SubSeq(hash, 1, CAPACITY))

\* A proving run finished whose Blake2s output has a set bit among the
\* discarded high bits.
C10_Witness ==
  /\ result = "ok" /\ cs.kind = "prover" /\ verified.res = "none"
  /\ Len(fr.ivk) = CAPACITY
  /\ \E j \in (CAPACITY + 1) .. HashBits : IvkHash[j] = Some(1)

\* ------------------------------------------------------------------------
\* C6: the bytes to_bytes_le gives for a key pair are 192 bytes, the 32 bytes
\* of the secret followed by the 160 bytes of the public point, and
\* from_bytes_le on those bytes returns a pair with the same secret and the
\* same public point.
C6_KeyPairBytesRoundTrip ==
  /\ kpWire.intact =>
        /\ Len(kpWire.bytes) = 192
        /\ SubSeq(kpWire.bytes, 1, 32) = Fr_to_bytes(kp.secret)
        /\ SubSeq(kpWire.bytes, 33, 192) = Point_to_bytes_le(kp.public)
  /\ (kpOut.op = "from_bytes_le" /\ kpWire.intact) =>
        /\ kpOut.kind = "ok"
        /\ kpOut.value.secret = kp.secret
        /\ kpOut.value.public = kp.public

\* A pair with a non-zero secret was encoded and decoded again.
C6_Witness ==
  /\ kpOut.op = "from_bytes_le" /\ kpWire.intact /\ kpOut.kind = "ok"
  /\ kp.secret # 0
  /\ kpOut.value = kp

\* ------------------------------------------------------------------------
\* public == [secret] * PUBLIC_KEY_GENERATOR.
KeyRelation(k) == k.public = PointMul(PUBLIC_KEY_GENERATOR, k.secret)

\* secret(), public() and to_bytes_le() leave the pair as it is and the
\* getters return its fields; the pair in hand changes only when a newly
\* constructed one takes its place.
KeyPairImmutable ==
  /\ [](kpOut.op = "secret" => kpOut.value = kp.secret)
  /\ [](kpOut.op = "public" => kpOut.value = kp.public)
  /\ [][(kp' # kp) => (kpFrom = "none" \/ kpOut.op = "from_bytes_le")]_vars

\* C7 as stated: every key pair, from new, from Default or returned by
\* from_bytes_le for whatever buffer it accepts, satisfies
\* public == [secret] * PUBLIC_KEY_GENERATOR, and the type is immutable.
C7_RelationForEveryKeyPair ==
  /\ []((kpFrom # "none") => KeyRelation(kp))
  /\ []((kpOut.op = "from_bytes_le" /\ kpOut.kind = "ok") => KeyRelation(kpOut.value))
  /\ KeyPairImmutable

\* C7 amended: a key pair from new, from Default, or returned by
\* from_bytes_le for the bytes to_bytes_le gave for such a pair, satisfies
\* public == [secret] * PUBLIC_KEY_GENERATOR, and the type is immutable.
\* from_bytes_le does not check the relation on other buffers.
C7_RelationForConstructedKeyPairs ==
  /\ []((kpFrom \in {"new", "default", "from_bytes_le"}) => KeyRelation(kp))
  /\ []((kpOut.op = "from_bytes_le" /\ kpOut.kind = "ok"
           /\ kpOut.from = "from_bytes_le") => KeyRelation(kpOut.value))
  /\ KeyPairImmutable

\* A pair with a non-zero secret was decoded from the bytes of a pair made by
\* new, and is the pair in hand.
C7_Witness ==
  /\ kpFrom = "from_bytes_le"
  /\ kp.secret # 0
  /\ KeyRelation(kp)
  /\ kpOut.op = "public" /\ kpOut.value = kp.public

=============================================================================
